---- MODULE Spec2Model ----
(***************************************************************************)
(* Model of the watchlist bot (package bot): the entries table, the        *)
(* Watchlist object built from it, and the command handlers.               *)
(*                                                                         *)
(* The table `entries` is a set of rows with the fields of Entry           *)
(* (entry.go:149-157) and the key of the schema, PRIMARY KEY (userID,      *)
(* title, category).  Each SQL statement is modelled as the keyed-store    *)
(* operation it names (insert, delete where, update where, select where,   *)
(* exists); every store call takes a parameter `fail` and, when it is      *)
(* TRUE, returns the driver's error and changes nothing, which also covers *)
(* a statement the engine rejects.  The methods Entry.Add, Entry.Delete    *)
(* and Entry.Update that list.go calls are the statements of AddEntry,     *)
(* DeleteEntry and UpdateEntry.                                            *)
(*                                                                         *)
(* Two revisions of FetchWatchlist live in the package: the two-argument   *)
(* one the handlers call (list.go:266-281, here ListFetchWatchlist) and    *)
(* the three-argument one with the `watched` flag (entry.go:439-451, here  *)
(* FetchWatchlist).                                                        *)
(***************************************************************************)
EXTENDS Integers, Sequences, FiniteSets, TLC

VARIABLES db, now, last

vars == <<db, now, last>>

(***************************************************************************)
(* Bounds of the model                                                     *)
(***************************************************************************)
\* number of entries ever constructed (each takes the next time stamp)
MaxClock == 2

Users == {"u1", "u2"}
TitleTokens == {"Dune"}
CategoryTokens == {"movie", "show", "book"}
LinkTokens == {"x"}
RatingInputs == {2}
SortTokens == {"title", "date", "category", "watched"}

(***************************************************************************)
(* Program constants                                                       *)
(***************************************************************************)
Movie == "movie"
Show == "show"
Anime == "anime"

ENTRYPOINT == "./watchlist"
ADD_COMMAND == "add"
DELETE_COMMAND == "delete"
VIEW_COMMAND == "view"
UPDATE_COMMAND == "update"
HELP_COMMAND == "help"
CONTACT_COMMAND == "contact"

sortTitle == "title"
sortDate == "date"
sortCategory == "category"

SORT_TITLE == "title"
SORT_DATE == "date"
SORT_CATEGORY == "category"
SORT_WATCHED == "watched"
SORT_RATING == "rating"

\* error values, told apart by their Go type: nil, the package's error types,
\* and the error of the database driver, which has one type whatever failed
Nil == "nil"
StoreError == "StoreError"
InvalidUserIDError == "InvalidUserIDError"
InvalidTitleError == "InvalidTitleError"
InvalidCategoryError == "InvalidCategoryError"
EntryNotFoundError == "EntryNotFoundError"
NotEnoughArgumentsError == "NotEnoughArgumentsError"
InvalidSortByError == "InvalidSortByError"
Panic == "panic"

(***************************************************************************)
(* Strings are compared with Go's <, byte-wise: the order of Lexicon.      *)
(***************************************************************************)
Lexicon == <<"", "Alpha", "Dune", "Mu", "Zeta", "anime", "book", "movie", "show", "x", "y">>

Rank(s) == CHOOSE i \in 1..Len(Lexicon) : Lexicon[i] = s

StrLess(a, b) == Rank(a) < Rank(b)

(***************************************************************************)
(* Entry                                                                   *)
(***************************************************************************)
\* the Entry literal of addHandler: Done and Rating keep their zero values
Entry(userID, title, category, date, link) ==
    [UserID |-> userID, Date |-> date, Title |-> title, Category |-> category,
     Done |-> FALSE, Rating |-> 0, Link |-> link]

\* a switch that accepts every category but the empty one
AnyCategory(c) == IF c # "" THEN Nil ELSE InvalidCategoryError

CategoryIsValid(c) ==
    IF c \in {Movie, Show, Anime} THEN Nil ELSE InvalidCategoryError

\* a validator that accepts every entry
AlwaysValid(e) == Nil

EntryIsValid(e) ==
    IF e.UserID = "" THEN InvalidUserIDError
    ELSE IF e.Title = "" THEN InvalidTitleError
    ELSE IF CategoryIsValid(e.Category) # Nil THEN CategoryIsValid(e.Category)
    ELSE Nil    \* reflect.TypeOf(e.Date) is always time.Time

(***************************************************************************)
(* The entries table                                                       *)
(***************************************************************************)
SameKey(r, userID, title, category) ==
    r.UserID = userID /\ r.Title = title /\ r.Category = category

HasKey(rows, userID, title, category) ==
    \E r \in rows : SameKey(r, userID, title, category)

\* a table declared without the key accepts every insert
NoPrimaryKey(rows, e) == FALSE

\* PRIMARY KEY (userID, title, category): an insert of a present key fails
PrimaryKeyViolation(rows, e) == HasKey(rows, e.UserID, e.Title, e.Category)

AddEntry(rows, e, fail) ==
    IF fail \/ PrimaryKeyViolation(rows, e)
    THEN [db |-> rows, err |-> StoreError]
    ELSE [db |-> rows \cup {e}, err |-> Nil]

\* the statement without `and category = ?`
DeleteEntryAnyCategory(rows, userID, title, category, fail) ==
    IF fail
    THEN [db |-> rows, err |-> StoreError]
    ELSE [db |-> {r \in rows : ~(r.UserID = userID /\ r.Title = title)}, err |-> Nil]

DeleteEntry(rows, userID, title, category, fail) ==
    IF fail
    THEN [db |-> rows, err |-> StoreError]
    ELSE [db |-> {r \in rows : ~SameKey(r, userID, title, category)}, err |-> Nil]

\* the statement as a replacement of the row by a fresh entry
UpdateEntryFresh(rows, userID, title, category, newLink, fail) ==
    IF fail
    THEN [db |-> rows, err |-> StoreError]
    ELSE [db |-> {IF SameKey(r, userID, title, category)
                  THEN Entry(r.UserID, r.Title, r.Category, r.Date, newLink)
                  ELSE r : r \in rows},
          err |-> Nil]

UpdateEntry(rows, userID, title, category, newLink, fail) ==
    IF fail
    THEN [db |-> rows, err |-> StoreError]
    ELSE [db |-> {IF SameKey(r, userID, title, category)
                  THEN [r EXCEPT !.Link = newLink] ELSE r : r \in rows},
          err |-> Nil]

\* the statement as `SET done = NOT done`
ToggleDone(rows, userID, title, category, fail) ==
    IF fail
    THEN [db |-> rows, err |-> StoreError]
    ELSE [db |-> {IF SameKey(r, userID, title, category)
                  THEN [r EXCEPT !.Done = ~r.Done] ELSE r : r \in rows},
          err |-> Nil]

DoneEntry(rows, userID, title, category, fail) ==
    IF fail
    THEN [db |-> rows, err |-> StoreError]
    ELSE [db |-> {IF SameKey(r, userID, title, category)
                  THEN [r EXCEPT !.Done = TRUE] ELSE r : r \in rows},
          err |-> Nil]

\* the statement as `SET rating = ?, done = 1`
RateAndMark(rows, userID, title, category, rating, fail) ==
    IF fail
    THEN [db |-> rows, err |-> StoreError]
    ELSE [db |-> {IF SameKey(r, userID, title, category)
                  THEN [r EXCEPT !.Rating = rating, !.Done = TRUE] ELSE r : r \in rows},
          err |-> Nil]

RateEntry(rows, userID, title, category, rating, fail) ==
    IF fail
    THEN [db |-> rows, err |-> StoreError]
    ELSE [db |-> {IF SameKey(r, userID, title, category)
                  THEN [r EXCEPT !.Rating = rating] ELSE r : r \in rows},
          err |-> Nil]

checkWatchlist(rows, userID, fail) ==
    IF fail
    THEN [exists |-> FALSE, err |-> StoreError]
    ELSE [exists |-> \E r \in rows : r.UserID = userID, err |-> Nil]

(***************************************************************************)
(* Rows come back in rowid order, the order of insertion; every entry      *)
(* takes a later time stamp than the ones before it, so this is the order  *)
(* of Date.                                                                *)
(***************************************************************************)
RECURSIVE RowsInOrder(_)
RowsInOrder(rows) ==
    IF rows = {} THEN <<>>
    ELSE LET first == CHOOSE r \in rows : \A q \in rows : r.Date <= q.Date
         IN <<first>> \o RowsInOrder(rows \ {first})

\* rows.Scan(&e.UserID, &e.Title, &e.Category, &e.Date, &e.Link): the other
\* fields of the Entry keep their zero values
Scan(r) == Entry(r.UserID, r.Title, r.Category, r.Date, r.Link)

(***************************************************************************)
(* Watchlist: a pointer to {UserID, Entries}; isNil marks the nil pointer  *)
(***************************************************************************)
NilWatchlist == [isNil |-> TRUE, UserID |-> "", Entries |-> <<>>]

NewWatchlist(userID) == [isNil |-> FALSE, UserID |-> userID, Entries |-> <<>>]

\* a populate whose SELECT has no WHERE clause
PopulateAll(w, rows, fail) ==
    IF fail
    THEN [w |-> w, err |-> StoreError]
    ELSE [w |-> [w EXCEPT !.Entries = RowsInOrder({Scan(r) : r \in rows})],
          err |-> Nil]

\* list.go: SELECT (userID, title, category, date, link) ... WHERE userID = ?
ListPopulate(w, rows, fail) ==
    IF fail
    THEN [w |-> w, err |-> StoreError]
    ELSE [w |-> [w EXCEPT !.Entries =
                    RowsInOrder({Scan(r) : r \in {q \in rows : q.UserID = w.UserID}})],
          err |-> Nil]

\* a fetch that returns the nil pointer with an error
ListFetchNilOnError(rows, userID, failCheck, failPopulate) ==
    LET c == checkWatchlist(rows, userID, failCheck)
    IN IF c.err # Nil THEN [watchlist |-> NilWatchlist, err |-> c.err]
       ELSE IF c.exists /\ failPopulate
            THEN [watchlist |-> NilWatchlist, err |-> StoreError]
       ELSE IF c.exists
            THEN [watchlist |-> ListPopulate(NewWatchlist(userID), rows, FALSE).w,
                  err |-> Nil]
       ELSE [watchlist |-> NewWatchlist(userID), err |-> Nil]

\* list.go: the watchlist is created first and returned on every path
ListFetchWatchlist(rows, userID, failCheck, failPopulate) ==
    LET watchlist == NewWatchlist(userID)
        c == checkWatchlist(rows, userID, failCheck)
    IN IF c.err # Nil THEN [watchlist |-> watchlist, err |-> c.err]
       ELSE IF c.exists
            THEN LET p == ListPopulate(watchlist, rows, failPopulate)
                 IN [watchlist |-> p.w, err |-> p.err]
            ELSE [watchlist |-> watchlist, err |-> c.err]

\* entry.go: ... WHERE userID = ? [AND done = 0]
populate(w, rows, watched, fail) ==
    IF fail
    THEN [w |-> w, err |-> StoreError]
    ELSE [w |-> [w EXCEPT !.Entries =
                    RowsInOrder({Scan(r) : r \in {q \in rows :
                        q.UserID = w.UserID /\ (watched \/ ~q.Done)}})],
          err |-> Nil]

\* entry.go: `watchlist := &Watchlist{...}` inside the if declares a new
\* variable; the one returned is the outer `var watchlist *Watchlist`, never
\* assigned.  err of checkWatchlist is overwritten when exists is true.
FetchWatchlist(rows, userID, watched, failCheck, failPopulate) ==
    LET watchlist == NilWatchlist
        c == checkWatchlist(rows, userID, failCheck)
    IN IF c.exists
       THEN LET inner == populate(NewWatchlist(userID), rows, watched, failPopulate)
            IN [watchlist |-> watchlist, err |-> inner.err]
       ELSE [watchlist |-> watchlist, err |-> c.err]

RemoveAt(s, i) == SubSeq(s, 1, i - 1) \o SubSeq(s, i + 1, Len(s))

\* the comparison without categoryMatch
MatchesTitle(w, userID, title, category) ==
    {i \in 1..Len(w.Entries) :
        w.Entries[i].UserID = userID /\ w.Entries[i].Title = title}

Matches(w, userID, title, category) ==
    {i \in 1..Len(w.Entries) : SameKey(w.Entries[i], userID, title, category)}

FirstMatch(w, userID, title, category) ==
    CHOOSE i \in Matches(w, userID, title, category) :
        \A j \in Matches(w, userID, title, category) : i <= j

\* a method that reads w.Entries panics on the nil pointer
WatchlistAdd(w, rows, e, fail) ==
    IF EntryIsValid(e) # Nil THEN [w |-> w, db |-> rows, err |-> EntryIsValid(e)]
    ELSE IF w.isNil THEN [w |-> w, db |-> rows, err |-> Panic]
    ELSE LET a == AddEntry(rows, e, fail)
         IN [w |-> [w EXCEPT !.Entries = Append(@, e)], db |-> a.db, err |-> a.err]

WatchlistDelete(w, rows, userID, title, category, fail) ==
    IF w.isNil THEN [w |-> w, db |-> rows, err |-> Panic]
    ELSE IF Matches(w, userID, title, category) = {}
    THEN [w |-> w, db |-> rows, err |-> EntryNotFoundError]
    ELSE LET i == FirstMatch(w, userID, title, category)
             watchlistItem == w.Entries[i]
             d == DeleteEntry(rows, watchlistItem.UserID, watchlistItem.Title,
                              watchlistItem.Category, fail)
         IN [w |-> [w EXCEPT !.Entries = RemoveAt(@, i)], db |-> d.db, err |-> d.err]

WatchlistUpdate(w, rows, userID, title, category, newLink, fail) ==
    IF w.isNil THEN [w |-> w, db |-> rows, err |-> Panic]
    ELSE IF Matches(w, userID, title, category) = {}
    THEN [w |-> w, db |-> rows, err |-> EntryNotFoundError]
    ELSE LET i == FirstMatch(w, userID, title, category)
             watchlistItem == w.Entries[i]
             u == UpdateEntry(rows, watchlistItem.UserID, watchlistItem.Title,
                              watchlistItem.Category, newLink, fail)
         IN [w |-> [w EXCEPT !.Entries[i].Link = newLink], db |-> u.db, err |-> u.err]

(***************************************************************************)
(* sort.Slice on fewer than 12 elements is an insertion sort               *)
(***************************************************************************)
Swap(s, i, j) == [s EXCEPT ![i] = s[j], ![j] = s[i]]

\* the less functions handed to sort.Slice, by sort option; the options
\* watched and rating are those of entry.go only
Less(key, a, b) ==
    IF key = sortTitle THEN StrLess(a.Title, b.Title)
    ELSE IF key = sortDate THEN a.Date < b.Date
    ELSE IF key = sortCategory THEN StrLess(a.Category, b.Category)
    ELSE IF key = SORT_WATCHED THEN a.Done = b.Done
    ELSE IF key = SORT_RATING THEN a.Rating < b.Rating
    ELSE FALSE

RECURSIVE Sink(_, _, _)
Sink(s, j, key) ==
    IF j > 1 /\ Less(key, s[j], s[j - 1]) THEN Sink(Swap(s, j, j - 1), j - 1, key) ELSE s

RECURSIVE InsertionSortFrom(_, _, _)
InsertionSortFrom(s, i, key) ==
    IF i > Len(s) THEN s ELSE InsertionSortFrom(Sink(s, i, key), i + 1, key)

\* a sort.Slice that leaves the slice as it is
NoSort(s, key) == s

SortSlice(s, key) == InsertionSortFrom(s, 2, key)

\* list.go Sort: no default case, an invalid option leaves the list as it is
\* the receiver is the watchlist of ListFetchWatchlist, never nil
ListSort(w, sort_by) ==
    IF sort_by \in {sortTitle, sortDate, sortCategory}
    THEN [w EXCEPT !.Entries = SortSlice(@, sort_by)]
    ELSE w

SortByIsValid(s) ==
    IF s \in {SORT_TITLE, SORT_DATE, SORT_CATEGORY, SORT_WATCHED, SORT_RATING}
    THEN Nil ELSE InvalidSortByError

\* entry.go Sort, with the title order for the options the switch leaves out
SortDefaultTitle(w, sort_by) ==
    [w |-> [w EXCEPT !.Entries = SortSlice(@, IF SortByIsValid(sort_by) = Nil
                                               THEN sort_by ELSE SORT_TITLE)],
     warn |-> SortByIsValid(sort_by)]

\* entry.go Sort: the error of IsValid is logged as a warning and the switch
\* has no default case
Sort(w, sort_by) ==
    [w |-> IF SortByIsValid(sort_by) = Nil
           THEN [w EXCEPT !.Entries = SortSlice(@, sort_by)]
           ELSE w,
     warn |-> SortByIsValid(sort_by)]

(***************************************************************************)
(* Handlers.  args is REGEX_PATTERN.FindAllString(m.Content, -1), indexed  *)
(* from 1 here; userID is m.Author.ID; fails[i] tells whether the i-th     *)
(* store call of the handler fails.  The result names the table and clock  *)
(* afterwards, the error of FetchWatchlist (logged), the error of the      *)
(* watchlist method (logged), the messages sent to the channel and the     *)
(* watchlist the handler ends with.                                        *)
(***************************************************************************)
Outcome(rows, clock, fetchErr, err, reply, w) ==
    [db |-> rows, now |-> clock, fetchErr |-> fetchErr, err |-> err,
     reply |-> reply, w |-> w]

addHandler(rows, clock, userID, args, fails) ==
    IF Len(args) < 4
    THEN Outcome(rows, clock, Nil, NotEnoughArgumentsError, <<>>, NilWatchlist)
    ELSE LET title == args[3]
             category == args[4]
             link == IF Len(args) = 5 THEN args[5] ELSE ""
             entry == Entry(userID, title, category, clock + 1, link)
             f == ListFetchWatchlist(rows, userID, fails[1], fails[2])
             a == WatchlistAdd(f.watchlist, rows, entry, fails[3])
         IN Outcome(a.db, IF a.db = rows THEN clock ELSE clock + 1,
                    f.err, a.err, <<"added">>, a.w)

\* a handler that takes an omitted category for movie
DeleteCategoryMovie(args) == IF Len(args) >= 4 THEN args[4] ELSE Movie

\* var category Category keeps its zero value "" when no fourth token is given
DeleteCategory(args) == IF Len(args) >= 4 THEN args[4] ELSE ""

deleteHandler(rows, clock, userID, args, fails) ==
    IF Len(args) < 3
    THEN Outcome(rows, clock, Nil, NotEnoughArgumentsError, <<>>, NilWatchlist)
    ELSE LET title == args[3]
             category == DeleteCategory(args)
             f == ListFetchWatchlist(rows, userID, fails[1], fails[2])
             d == WatchlistDelete(f.watchlist, rows, userID, title, category, fails[3])
         IN Outcome(d.db, clock, f.err, d.err, <<"deleted">>, d.w)

\* a handler that takes the fourth of four tokens for the category when it
\* names one
updateHandlerByContent(rows, clock, userID, args, fails) ==
    IF Len(args) < 4
    THEN Outcome(rows, clock, Nil, NotEnoughArgumentsError, <<>>, NilWatchlist)
    ELSE LET title == args[3]
             named == Len(args) >= 5 \/ CategoryIsValid(args[4]) = Nil
             category == IF named THEN args[4] ELSE ""
             newLink == IF Len(args) >= 5 THEN args[5]
                        ELSE IF named THEN "" ELSE args[4]
             f == ListFetchWatchlist(rows, userID, fails[1], fails[2])
             u == WatchlistUpdate(f.watchlist, rows, userID, title, category,
                                  newLink, fails[3])
         IN Outcome(u.db, clock, f.err, u.err, <<"updated">>, u.w)

updateHandler(rows, clock, userID, args, fails) ==
    IF Len(args) < 4
    THEN Outcome(rows, clock, Nil, NotEnoughArgumentsError, <<>>, NilWatchlist)
    ELSE LET title == args[3]
             category == IF Len(args) >= 5 THEN args[4] ELSE ""
             newLink == IF Len(args) >= 5 THEN args[5] ELSE args[4]
             f == ListFetchWatchlist(rows, userID, fails[1], fails[2])
             u == WatchlistUpdate(f.watchlist, rows, userID, title, category,
                                  newLink, fails[3])
         IN Outcome(u.db, clock, f.err, u.err, <<"updated">>, u.w)

\* var sort_by Sort_by keeps its zero value when no third token is given
ViewSortKey(args) == IF Len(args) >= 3 THEN args[3] ELSE ""

\* the embed carries one field per entry of the sorted watchlist
viewHandler(rows, clock, userID, args, fails) ==
    LET sort_by == ViewSortKey(args)
        f == ListFetchWatchlist(rows, userID, fails[1], fails[2])
        w == ListSort(f.watchlist, sort_by)
    IN Outcome(rows, clock, f.err, Nil, <<"embed">>, w)

\* the command words that occur in a token as a substring: of the tokens of
\* the model, the command words themselves and "address", which holds "add"
WordsIn(token) ==
    IF token = "address" THEN {ADD_COMMAND}
    ELSE {token} \cap {ADD_COMMAND, DELETE_COMMAND, VIEW_COMMAND, UPDATE_COMMAND}

\* strings.Contains(m.Content, word)
Contains(args, word) == \E i \in 1..Len(args) : word \in WordsIn(args[i])

\* a help that sends its sections as separate messages
helpInParts(args) == <<"help add", "help delete", "help view", "help update", "help">>

\* one message: the help of the first command word the content contains, or
\* all of it
helpHandler(args) ==
    IF Contains(args, ADD_COMMAND) THEN <<"help add">>
    ELSE IF Contains(args, DELETE_COMMAND) THEN <<"help delete">>
    ELSE IF Contains(args, VIEW_COMMAND) THEN <<"help view">>
    ELSE IF Contains(args, UPDATE_COMMAND) THEN <<"help update">>
    ELSE <<"help">>

contactHandler == <<"contact">>

\* s.State.User.ID, the bot's own account
BotID == "bot"

After(reply, h) == [h EXCEPT !.reply = reply \o @]

\* MasterHandler: args[0] and args[1] of the code are args[1] and args[2]
\* here; indexing past the end of args is a run-time panic
MasterHandler(rows, clock, userID, args, fails) ==
    IF userID = BotID THEN Outcome(rows, clock, Nil, Nil, <<>>, NilWatchlist)
    ELSE LET sent == IF Len(args) < 2 THEN helpHandler(args) ELSE <<>>
         IN IF Len(args) < 1
            THEN Outcome(rows, clock, Nil, Panic, sent, NilWatchlist)
            ELSE IF args[1] # ENTRYPOINT
            THEN Outcome(rows, clock, Nil, Nil, sent, NilWatchlist)
            ELSE IF Len(args) < 2
            THEN Outcome(rows, clock, Nil, Panic, sent, NilWatchlist)
            ELSE IF args[2] = ADD_COMMAND
            THEN After(sent, addHandler(rows, clock, userID, args, fails))
            ELSE IF args[2] = DELETE_COMMAND
            THEN After(sent, deleteHandler(rows, clock, userID, args, fails))
            ELSE IF args[2] = VIEW_COMMAND
            THEN After(sent, viewHandler(rows, clock, userID, args, fails))
            ELSE IF args[2] = UPDATE_COMMAND
            THEN After(sent, updateHandler(rows, clock, userID, args, fails))
            ELSE IF args[2] = CONTACT_COMMAND
            THEN Outcome(rows, clock, Nil, Nil, sent \o contactHandler, NilWatchlist)
            ELSE Outcome(rows, clock, Nil, Nil, sent \o helpHandler(args), NilWatchlist)

(***************************************************************************)
(* Inputs                                                                  *)
(***************************************************************************)
AddTails ==
    {<<t>> : t \in TitleTokens}
    \cup {<<t, c>> : t \in TitleTokens, c \in CategoryTokens}
    \cup {<<t, c, l>> : t \in TitleTokens, c \in CategoryTokens, l \in LinkTokens}
    \cup {<<t, c, l, l>> : t \in TitleTokens, c \in CategoryTokens, l \in LinkTokens}

DeleteTails ==
    {<<>>}
    \cup {<<t>> : t \in TitleTokens}
    \cup {<<t, c>> : t \in TitleTokens, c \in CategoryTokens}

UpdateTails ==
    {<<t>> : t \in TitleTokens}
    \cup {<<t, l>> : t \in TitleTokens, l \in LinkTokens \cup CategoryTokens}
    \cup {<<t, c, l>> : t \in TitleTokens, c \in CategoryTokens, l \in LinkTokens}
    \cup {<<t, c, l, l>> : t \in TitleTokens, c \in CategoryTokens, l \in LinkTokens}

Args(command) ==
    {<<ENTRYPOINT, command>> \o tail :
        tail \in IF command = ADD_COMMAND THEN AddTails
                 ELSE IF command = DELETE_COMMAND THEN DeleteTails
                 ELSE UpdateTails}

ViewArgs == {<<ENTRYPOINT, VIEW_COMMAND>>}
            \cup {<<ENTRYPOINT, VIEW_COMMAND, k>> : k \in SortTokens}

\* the messages that reach no handler of the table: too short, not addressed
\* to the bot, help, contact, and the commands of the README that
\* MasterHandler has no case for
OtherArgs ==
    {<<>>, <<ENTRYPOINT>>, <<"hello">>, <<ENTRYPOINT, HELP_COMMAND>>,
     <<ENTRYPOINT, HELP_COMMAND, ADD_COMMAND>>, <<ENTRYPOINT, HELP_COMMAND, DELETE_COMMAND>>,
     <<ENTRYPOINT, HELP_COMMAND, "address">>, <<ENTRYPOINT, HELP_COMMAND, "bogus">>,
     <<ENTRYPOINT, CONTACT_COMMAND>>,
     <<ENTRYPOINT, "random">>, <<ENTRYPOINT, "bogus">>}
    \cup {<<"hello", ADD_COMMAND, t, c>> : t \in TitleTokens, c \in {Movie}}
    \cup {<<ENTRYPOINT, "done", t, c>> : t \in TitleTokens, c \in {Movie, Show}}
    \cup {<<ENTRYPOINT, "rate", t, c, "2">> : t \in TitleTokens, c \in {Movie, Show}}

Keys == Users \X TitleTokens \X {Movie, Show}

NoFailure == <<FALSE, FALSE, FALSE>>

\* at most one store call of an invocation fails
Failures == {<<FALSE, FALSE, FALSE>>, <<TRUE, FALSE, FALSE>>,
             <<FALSE, TRUE, FALSE>>, <<FALSE, FALSE, TRUE>>}

(***************************************************************************)
(* The state machine.  last is what the latest call showed: who called     *)
(* what, the errors, the messages sent, and the watchlist a view showed or *)
(* a fetch returned.                                                       *)
(***************************************************************************)
Call(op, user, fetchErr, err, reply, wl) ==
    [op |-> op, user |-> user, fetchErr |-> fetchErr, err |-> err,
     reply |-> reply, wl |-> wl]

Init ==
    /\ db = {}
    /\ now = 0
    /\ last = Call("init", "", Nil, Nil, <<>>, NilWatchlist)

\* a panic in the goroutine of a handler ends the process: no call follows it
Becomes(op, userID, h, wl) ==
    /\ last.err # Panic
    /\ h.now <= MaxClock
    /\ db' = h.db
    /\ now' = h.now
    /\ last' = Call(op, userID, h.fetchErr, h.err, h.reply, wl)

Add ==
    \E userID \in Users, args \in Args(ADD_COMMAND), fails \in Failures :
        \E h \in {MasterHandler(db, now, userID, args, fails)} :
            Becomes("add", userID, h, NilWatchlist)

Delete ==
    \E userID \in Users, args \in Args(DELETE_COMMAND), fails \in Failures :
        \E h \in {MasterHandler(db, now, userID, args, fails)} :
            Becomes("delete", userID, h, NilWatchlist)

Update ==
    \E userID \in Users, args \in Args(UPDATE_COMMAND), fails \in Failures :
        \E h \in {MasterHandler(db, now, userID, args, fails)} :
            Becomes("update", userID, h, NilWatchlist)

View ==
    \E userID \in Users, args \in ViewArgs, fails \in Failures :
        \E h \in {MasterHandler(db, now, userID, args, fails)} :
            Becomes("view", userID, h, h.w)

Other ==
    \E userID \in Users \cup {BotID}, args \in OtherArgs :
        \E h \in {MasterHandler(db, now, userID, args, NoFailure)} :
            Becomes("other", userID, h, NilWatchlist)

\* the exported calls of entry.go that no handler of handlers.go reaches
MarkDone ==
    \E k \in Keys, fail \in BOOLEAN :
        \E r \in {DoneEntry(db, k[1], k[2], k[3], fail)} :
            Becomes("done", k[1], Outcome(r.db, now, Nil, r.err, <<>>, NilWatchlist),
                    NilWatchlist)

Rate ==
    \E k \in Keys, rating \in RatingInputs, fail \in BOOLEAN :
        \E r \in {RateEntry(db, k[1], k[2], k[3], rating, fail)} :
            Becomes("rate", k[1], Outcome(r.db, now, Nil, r.err, <<>>, NilWatchlist),
                    NilWatchlist)

Fetch ==
    \E userID \in Users, watched \in BOOLEAN, fails \in Failures :
        \E r \in {FetchWatchlist(db, userID, watched, fails[1], fails[2])} :
            Becomes("fetch", userID,
                    Outcome(db, now, Nil, r.err, <<>>, r.watchlist), r.watchlist)

Next ==
    \/ Add
    \/ Delete
    \/ Update
    \/ View
    \/ Other
    \/ MarkDone
    \/ Rate
    \/ Fetch

Spec == Init /\ [][Next]_vars

(***************************************************************************)
(* Properties.  `fetch(owner, includeDone)` is FetchWatchlist of entry.go; *)
(* add, delete and update are the watchlist methods as the handlers call   *)
(* them, on the watchlist fetched for the author.  A property about one    *)
(* call is stated for every call that can be made in a reachable state.    *)
(***************************************************************************)
Links == {""} \cup LinkTokens

\* C1: after add(entry) returns ok, for a valid entry, fetch(owner, true)
\* returns a watchlist with exactly one entry of the submitted (owner, title,
\* category), carrying the submitted link, done = false and rating = 0.
C1_AddThenFetch ==
    \A userID \in Users, title \in TitleTokens, category \in {Movie, Show, Anime},
       link \in Links :
        LET e == Entry(userID, title, category, now + 1, link)
            w == ListFetchWatchlist(db, userID, FALSE, FALSE).watchlist
            a == WatchlistAdd(w, db, e, FALSE)
            f == FetchWatchlist(a.db, userID, TRUE, FALSE, FALSE)
        IN a.err = Nil =>
              /\ f.err = Nil
              /\ ~f.watchlist.isNil
              /\ Cardinality(Matches(f.watchlist, userID, title, category)) = 1
              /\ \A i \in Matches(f.watchlist, userID, title, category) :
                    /\ f.watchlist.Entries[i].Link = link
                    /\ f.watchlist.Entries[i].Done = FALSE
                    /\ f.watchlist.Entries[i].Rating = 0

\* C2: in every reachable state no two rows of the table share the same
\* (owner, title, category).
C2_UniqueKey ==
    \A r \in db, q \in db : SameKey(r, q.UserID, q.Title, q.Category) => r = q

\* two entries of one owner with one title, one of them marked and rated
C2_Witness ==
    \E r \in db, q \in db :
        /\ r # q
        /\ r.UserID = q.UserID /\ r.Title = q.Title
        /\ r.Done /\ r.Rating # 0

\* C3: add of an entry whose (owner, title, category) is already in the table
\* returns a duplicate-key error that is none of not-found, a validation
\* error and the error of a failed store call, and leaves the table unchanged.
C3_DuplicateAdd ==
    \A userID \in Users, title \in TitleTokens, category \in {Movie, Show, Anime},
       link \in Links :
        LET e == Entry(userID, title, category, now + 1, link)
            w == ListFetchWatchlist(db, userID, FALSE, FALSE).watchlist
            a == WatchlistAdd(w, db, e, FALSE)
        IN HasKey(db, userID, title, category) =>
              /\ a.err \notin {Nil, EntryNotFoundError, InvalidUserIDError,
                               InvalidTitleError, InvalidCategoryError}
              /\ a.err # AddEntry(db, e, TRUE).err
              /\ a.db = db

\* C4: delete(owner, title, category) when no row of that owner has the exact
\* triple returns EntryNotFoundError and leaves the table unchanged.
C4_DeleteMissing ==
    \A userID \in Users, args \in Args(DELETE_COMMAND), fails \in Failures :
        LET h == deleteHandler(db, now, userID, args, fails)
        IN (Len(args) >= 3 /\ ~HasKey(db, userID, args[3], DeleteCategory(args))) =>
              /\ h.err = EntryNotFoundError
              /\ h.db = db

\* a delete that found nothing, by an owner who has entries
C4_Witness ==
    /\ last.op = "delete"
    /\ last.fetchErr = Nil
    /\ last.err = EntryNotFoundError
    /\ \E r \in db : r.UserID = last.user

\* C5: a successful delete(owner, title, category) removes exactly the row of
\* that triple and leaves every other row as it was, entries of the same
\* owner and title under another category included, in the table and in the
\* watchlist fetched from it.
C5_DeleteExact ==
    \A userID \in Users, args \in Args(DELETE_COMMAND), fails \in Failures :
        LET h == deleteHandler(db, now, userID, args, fails)
            before == ListFetchWatchlist(db, userID, FALSE, FALSE).watchlist
            after == ListFetchWatchlist(h.db, userID, FALSE, FALSE).watchlist
        IN h.err = Nil =>
              \E r \in db :
                  /\ SameKey(r, userID, args[3], DeleteCategory(args))
                  /\ h.db = db \ {r}
                  /\ Cardinality(h.db) = Cardinality(db) - 1
                  /\ h.w = after
                  /\ \E i \in 1..Len(before.Entries) :
                        /\ before.Entries[i] = Scan(r)
                        /\ after.Entries = RemoveAt(before.Entries, i)

\* a delete that succeeded and left an entry of the same owner and title
C5_Witness ==
    /\ last.op = "delete"
    /\ last.err = Nil
    /\ \E r \in db : r.UserID = last.user /\ r.Title \in TitleTokens

\* C6: for an existing entry, rate(owner, title, category, r) followed by a
\* fetch of the owner's entries shows rating = r, and rate(r1) followed by
\* rate(r2) leaves the table as rate(r2) alone does.
C6_RateThenFetch ==
    \A k \in Keys, r1 \in RatingInputs, r2 \in RatingInputs :
        LET one == RateEntry(db, k[1], k[2], k[3], r1, FALSE)
            two == RateEntry(one.db, k[1], k[2], k[3], r2, FALSE)
            p == populate(NewWatchlist(k[1]), two.db, TRUE, FALSE)
        IN HasKey(db, k[1], k[2], k[3]) =>
              /\ one.err = Nil /\ two.err = Nil
              /\ two.db = RateEntry(db, k[1], k[2], k[3], r2, FALSE).db
              /\ p.err = Nil
              /\ \E i \in Matches(p.w, k[1], k[2], k[3]) : p.w.Entries[i].Rating = r2

\* C7: for an existing entry, markDone twice returns ok both times and leaves
\* the table as markDone once does: that row with done = true, every other
\* field and row unchanged.
C7_DoneIdempotent ==
    \A k \in Keys :
        LET once == DoneEntry(db, k[1], k[2], k[3], FALSE)
            twice == DoneEntry(once.db, k[1], k[2], k[3], FALSE)
        IN \A r \in db : SameKey(r, k[1], k[2], k[3]) =>
              /\ once.err = Nil /\ twice.err = Nil
              /\ once.db = (db \ {r}) \cup {[r EXCEPT !.Done = TRUE]}
              /\ twice.db = once.db

\* markDone was called without error where the owner has a marked entry with
\* a rating and a link, next to another entry
C7_Witness ==
    /\ last.op = "done"
    /\ last.err = Nil
    /\ Cardinality(db) = 2
    /\ \E r \in db : r.UserID = last.user /\ r.Done /\ r.Rating # 0 /\ r.Link # ""

\* C8: a row is created with done = false, and a row whose done is true keeps
\* done = true in every step in which its key stays in the table.
C8_DoneMonotone ==
    [][\A r \in db' :
          /\ ~HasKey(db, r.UserID, r.Title, r.Category) => r.Done = FALSE
          /\ \A q \in db : (SameKey(q, r.UserID, r.Title, r.Category) /\ q.Done)
                              => r.Done]_vars

\* the only entry of the table is marked and has since been given a link by
\* an update
C8_Witness ==
    /\ last.op = "update"
    /\ last.err = Nil
    /\ Cardinality(db) = 1
    /\ \E r \in db : r.Done /\ r.Link # ""

\* the keys of the entries of a watchlist, and of the rows of an owner
EntryKeys(w) == {<<w.Entries[i].UserID, w.Entries[i].Title, w.Entries[i].Category>> :
                    i \in 1..Len(w.Entries)}

\* C9: for an owner with entries, fetch(owner, includeDone) returns exactly
\* the owner's entries when includeDone is true and exactly the owner's
\* entries with done = false otherwise, each once.
C9_FetchExact ==
    \A userID \in Users, watched \in BOOLEAN :
        LET f == FetchWatchlist(db, userID, watched, FALSE, FALSE)
            wanted == {r \in db : r.UserID = userID /\ (watched \/ ~r.Done)}
        IN (\E r \in db : r.UserID = userID) =>
              /\ f.err = Nil
              /\ ~f.watchlist.isNil
              /\ Len(f.watchlist.Entries) = Cardinality(wanted)
              /\ EntryKeys(f.watchlist) = {<<r.UserID, r.Title, r.Category>> : r \in wanted}

\* C10: for a user without entries, fetch returns an empty watchlist that is
\* not nil, with no error, and view completes with an empty listing.
C10_FetchEmpty ==
    \A userID \in Users, watched \in BOOLEAN, args \in ViewArgs :
        LET f == FetchWatchlist(db, userID, watched, FALSE, FALSE)
            v == viewHandler(db, now, userID, args, NoFailure)
        IN ~(\E r \in db : r.UserID = userID) =>
              /\ f.err = Nil
              /\ ~f.watchlist.isNil
              /\ f.watchlist.Entries = <<>>
              /\ v.reply = <<"embed">>
              /\ v.w.Entries = <<>>

(***************************************************************************)
(* Sort as a function of its input: a watchlist of up to MaxLen entries is *)
(* drawn, then sorted by an option.                                        *)
(***************************************************************************)
MaxLen == 3

SortEntry(title, category, date, done, rating) ==
    [Entry("u1", title, category, date, "") EXCEPT !.Done = done, !.Rating = rating]

SortEntries ==
    {SortEntry("Zeta", Movie, 1, FALSE, 2), SortEntry("Alpha", Show, 2, TRUE, 0),
     SortEntry("Mu", Movie, 3, FALSE, 1), SortEntry("Alpha", Anime, 4, TRUE, 2),
     SortEntry("Dune", Show, 5, FALSE, 0)}

\* the entries of a watchlist are distinct rows
SortInputs ==
    {q \in UNION {[1..n -> SortEntries] : n \in 0..MaxLen} :
        \A i \in 1..Len(q), j \in 1..Len(q) : i # j => q[i] # q[j]}

SortOptions == {SORT_TITLE, SORT_DATE, SORT_CATEGORY, SORT_WATCHED, SORT_RATING,
                "", "bogus"}

SortInit ==
    /\ db = {}
    /\ now = 0
    /\ \E q \in SortInputs :
          last = [op |-> "input", key |-> "", input |-> q,
                  wl |-> [NewWatchlist("u1") EXCEPT !.Entries = q], warn |-> Nil]

SortStep ==
    /\ last.op = "input"
    /\ \E sort_by \in SortOptions :
          \E r \in {Sort(last.wl, sort_by)} :
              last' = [op |-> "sort", key |-> sort_by, input |-> last.input,
                       wl |-> r.w, warn |-> r.warn]
    /\ UNCHANGED <<db, now>>

SortNext == SortStep

SortSpec == SortInit /\ [][SortNext]_vars

\* the value an entry is ordered by under a sort option
KeyOf(key, e) ==
    IF key = SORT_TITLE THEN Rank(e.Title)
    ELSE IF key = SORT_CATEGORY THEN Rank(e.Category)
    ELSE IF key = SORT_DATE THEN e.Date
    ELSE e.Rating

Titles(q) == [i \in 1..Len(q) |-> q[i].Title]

\* C11: for each of the options title, date, category and rating and every
\* input, Sort leaves the entries in non-decreasing order of that key, with
\* the same entries as before.
C11_SortOrders ==
    (last.op = "sort" /\ last.key \in {SORT_TITLE, SORT_DATE, SORT_CATEGORY, SORT_RATING})
    => /\ \A i \in 1..(Len(last.wl.Entries) - 1) :
              KeyOf(last.key, last.wl.Entries[i]) <= KeyOf(last.key, last.wl.Entries[i + 1])
       /\ Len(last.wl.Entries) = Len(last.input)
       /\ {last.wl.Entries[i] : i \in 1..Len(last.wl.Entries)}
             = {last.input[i] : i \in 1..Len(last.input)}

\* titles Zeta, Alpha, Mu sorted by title
C11_Witness ==
    /\ last.op = "sort"
    /\ last.key = SORT_TITLE
    /\ Titles(last.input) = <<"Zeta", "Alpha", "Mu">>
    /\ Titles(last.wl.Entries) = <<"Alpha", "Mu", "Zeta">>

\* C12: Sort with an option outside title, date, category, watched and rating
\* leaves the entries as they were, in the same order, and only logs the
\* warning of IsValid.
C12_SortUnknownKey ==
    (last.op = "sort" /\ last.key \notin {SORT_TITLE, SORT_DATE, SORT_CATEGORY,
                                            SORT_WATCHED, SORT_RATING})
    => /\ last.wl.Entries = last.input
       /\ last.wl = [NewWatchlist("u1") EXCEPT !.Entries = last.input]
       /\ last.warn = InvalidSortByError

\* an unknown option met an input that is not in title order
C12_Witness ==
    /\ last.op = "sort"
    /\ last.key = "bogus"
    /\ Titles(last.input) = <<"Zeta", "Alpha", "Mu">>
    /\ last.warn = InvalidSortByError

(***************************************************************************)
(* The tokenizer, REGEX_PATTERN.FindAllString(m.Content, -1) with the      *)
(* pattern ("[^"]+"|\S+), as a function of the message: a message is a     *)
(* sequence of characters, a token the sequence of characters matched.     *)
(* The matches are found left to right, each at the first character not    *)
(* yet consumed where an alternative matches, the first alternative first. *)
(***************************************************************************)
MaxMsg == 5

Quote == "\""
Space == " "
Chars == {"a", Space, Quote}

\* the end of the match of "[^"]+" at i, or 0: the next quote after i, with
\* at least one character in between
QuotedEnd(c, i) ==
    IF c[i] = Quote /\ \E j \in (i + 1)..Len(c) : c[j] = Quote
    THEN LET j == CHOOSE j \in (i + 1)..Len(c) :
                      c[j] = Quote /\ \A k \in (i + 1)..(j - 1) : c[k] # Quote
         IN IF j >= i + 2 THEN j ELSE 0
    ELSE 0

\* the end of the match of \S+ at i (c[i] is not white space): greedy
RunEnd(c, i) ==
    CHOOSE j \in i..Len(c) :
        /\ \A k \in i..j : c[k] # Space
        /\ (j = Len(c) \/ c[j + 1] = Space)

RECURSIVE FindAllFrom(_, _)
FindAllFrom(c, i) ==
    IF i > Len(c) THEN <<>>
    ELSE IF c[i] = Space THEN FindAllFrom(c, i + 1)
    ELSE LET j == IF QuotedEnd(c, i) # 0 THEN QuotedEnd(c, i) ELSE RunEnd(c, i)
         IN <<SubSeq(c, i, j)>> \o FindAllFrom(c, j + 1)

FindAllString(c) == FindAllFrom(c, 1)

Messages == UNION {[1..n -> Chars] : n \in 0..MaxMsg}

TokenInit ==
    /\ db = {}
    /\ now = 0
    /\ \E c \in Messages : last = [op |-> "message", content |-> c, args |-> <<>>]

TokenStep ==
    /\ last.op = "message"
    /\ last' = [op |-> "tokens", content |-> last.content,
                args |-> FindAllString(last.content)]
    /\ UNCHANGED <<db, now>>

TokenNext == TokenStep

TokenSpec == TokenInit /\ [][TokenNext]_vars

\* C13: a double-quoted phrase becomes one token, the text between the quotes
\* with the quote characters stripped and the white space inside kept: a
\* message that is one quoted phrase yields that phrase as its only token.
C13_QuotedToken ==
    last.op = "tokens" =>
        \A n \in 1..(MaxMsg - 2) : \A body \in [1..n -> Chars \ {Quote}] :
            last.content = <<Quote>> \o body \o <<Quote>> => last.args = <<body>>

(***************************************************************************)
(* Properties of the dispatcher and of validation                          *)
(***************************************************************************)
\* C14: for a message with fewer than 2 tokens, or whose first token is not
\* the prefix, MasterHandler returns without touching the table; it sends
\* the help reply only when the first token is the prefix, and no reply at
\* all otherwise.
C14_ShortOrForeign ==
    \A userID \in Users, args \in OtherArgs :
        LET h == MasterHandler(db, now, userID, args, NoFailure)
        IN (Len(args) < 2 \/ args[1] # ENTRYPOINT) =>
              /\ h.err # Panic
              /\ h.db = db
              /\ h.reply = IF Len(args) >= 1 /\ args[1] = ENTRYPOINT
                           THEN helpHandler(args) ELSE <<>>

\* C15: a message addressed to the bot whose second token is done, rate or
\* random reaches that operation and not the help fallback: done sets done on
\* the matching row, rate overwrites its rating.
C15_DoneRateRandom ==
    \A userID \in Users, args \in OtherArgs :
        LET h == MasterHandler(db, now, userID, args, NoFailure)
        IN (Len(args) >= 2 /\ args[1] = ENTRYPOINT
                /\ args[2] \in {"done", "rate", "random"}) =>
              /\ h.reply # helpHandler(args)
              /\ args[2] = "done" =>
                    h.db = DoneEntry(db, userID, args[3], args[4], FALSE).db
              /\ args[2] = "rate" =>
                    h.db = RateEntry(db, userID, args[3], args[4], 2, FALSE).db

(***************************************************************************)
(* Entry.IsValid as a function of the entry: an entry is drawn, then       *)
(* validated.  IsValid assigns to no field of its receiver and takes no    *)
(* database handle.                                                        *)
(***************************************************************************)
ValidationEntries ==
    {[Entry(userID, title, category, 1, link) EXCEPT !.Done = done, !.Rating = rating] :
        userID \in {"", "u1"}, title \in {"", "Dune"},
        category \in {"", Movie, Show, Anime, "book"}, link \in Links,
        done \in BOOLEAN, rating \in {-1, 0, 2}}

ValidInit ==
    /\ db = {}
    /\ now = 0
    /\ \E e \in ValidationEntries : last = [op |-> "entry", e |-> e, err |-> Nil]

ValidStep ==
    /\ last.op = "entry"
    /\ last' = [op |-> "validated", e |-> last.e, err |-> EntryIsValid(last.e)]
    /\ UNCHANGED <<db, now>>

ValidNext == ValidStep

ValidSpec == ValidInit /\ [][ValidNext]_vars

\* C16: validation returns nil exactly when owner and title are non-empty and
\* the category is movie, show or anime; otherwise the owner error if the
\* owner is empty, else the title error if the title is empty, else the
\* category error; the rating does not matter and the table is not touched.
C16_Validation ==
    [][last'.op = "validated" =>
          /\ last'.err = IF last.e.UserID = "" THEN InvalidUserIDError
                         ELSE IF last.e.Title = "" THEN InvalidTitleError
                         ELSE IF last.e.Category \notin {"movie", "show", "anime"}
                              THEN InvalidCategoryError
                         ELSE Nil
          /\ \A e \in ValidationEntries :
                (\A f \in DOMAIN e : f # "Rating" => e[f] = last.e[f])
                    => EntryIsValid(e) = last'.err
          /\ last'.e = last.e
          /\ db' = db]_vars

\* an entry with owner, title, a rating below zero and a category outside
\* the enumeration was refused for its category
C16_Witness ==
    /\ last.op = "validated"
    /\ last.e.UserID # "" /\ last.e.Title # ""
    /\ last.e.Category = "book"
    /\ last.e.Rating = -1
    /\ last.err = InvalidCategoryError

\* C17: every row of the table has a non-empty owner, a non-empty title and a
\* category among movie, show and anime.
C17_RowsValid ==
    \A r \in db :
        r.UserID # "" /\ r.Title # "" /\ r.Category \in {"movie", "show", "anime"}

\* an add was refused for its category while the table holds rows
C17_Witness ==
    /\ last.op = "add"
    /\ last.err = InvalidCategoryError
    /\ db # {}

(***************************************************************************)
(* Properties of the steps of Spec                                         *)
(***************************************************************************)
\* C18: update changes only the link, markDone only done and rate only the
\* rating of the one matching row; the other fields of that row and every
\* other row are unchanged, and no step changes the date of a row whose key
\* stays in the table.
C18_FrameOfMutations ==
    [][/\ \A q \in db, r \in db' :
              SameKey(r, q.UserID, q.Title, q.Category) =>
                  /\ r.Date = q.Date
                  /\ last'.op = "update" => r = [q EXCEPT !.Link = r.Link]
                  /\ last'.op = "done" => r = [q EXCEPT !.Done = r.Done]
                  /\ last'.op = "rate" => r = [q EXCEPT !.Rating = r.Rating]
       /\ last'.op \in {"update", "done", "rate"} =>
              /\ Cardinality(db') = Cardinality(db)
              /\ Cardinality(db' \ db) <= 1
              /\ \A r \in db' : HasKey(db, r.UserID, r.Title, r.Category)]_vars

\* a rating was given to an entry that has a link and is marked, next to an
\* entry without rating
C18_Witness ==
    /\ last.op = "rate"
    /\ last.err = Nil
    /\ \E r \in db, q \in db :
          /\ r.UserID = last.user /\ r.Rating # 0 /\ r.Link # "" /\ r.Done
          /\ q # r /\ q.Rating = 0

\* C19: view without a sort key orders the watchlist as Sort with the key
\* watched does.
C19_ViewDefaultKey ==
    \A userID \in Users :
        LET w == ListFetchWatchlist(db, userID, FALSE, FALSE).watchlist
        IN Sort(w, ViewSortKey(<<ENTRYPOINT, VIEW_COMMAND>>)).w.Entries
               = Sort(w, SORT_WATCHED).w.Entries

\* the message sent when an add, delete or update is done
Confirmation(op) ==
    IF op = "add" THEN <<"added">>
    ELSE IF op = "delete" THEN <<"deleted">>
    ELSE <<"updated">>

\* C20: an add, delete or update whose store operation succeeds sends exactly
\* one confirmation, and no message is answered with more than one reply.
C20_OneReply ==
    /\ Len(last.reply) <= 1
    /\ (last.op \in {"add", "delete", "update"} /\ last.err = Nil)
           => last.reply = Confirmation(last.op)

\* an update that succeeded was confirmed once
C20_Witness ==
    /\ last.op = "update"
    /\ last.fetchErr = Nil
    /\ last.err = Nil
    /\ last.reply = <<"updated">>
    /\ \E r \in db : r.UserID = last.user /\ r.Link # ""

(***************************************************************************)
(* Properties of the handlers                                              *)
(***************************************************************************)
\* C21: help without an argument replies with all usage strings; help
\* followed by a command word that has a usage string replies with that
\* usage only; help followed by any other token replies with all of them.
C21_HelpByArgument ==
    \A userID \in Users, args \in OtherArgs :
        LET h == MasterHandler(db, now, userID, args, NoFailure)
        IN (Len(args) >= 2 /\ args[1] = ENTRYPOINT /\ args[2] = HELP_COMMAND) =>
              h.reply = IF Len(args) >= 3 /\ args[3] = ADD_COMMAND THEN <<"help add">>
                        ELSE IF Len(args) >= 3 /\ args[3] = DELETE_COMMAND
                             THEN <<"help delete">>
                        ELSE IF Len(args) >= 3 /\ args[3] = VIEW_COMMAND
                             THEN <<"help view">>
                        ELSE IF Len(args) >= 3 /\ args[3] = UPDATE_COMMAND
                             THEN <<"help update">>
                        ELSE <<"help">>

\* the messages that reach addHandler, deleteHandler, updateHandler or
\* viewHandler
CommandArgs ==
    Args(ADD_COMMAND) \cup Args(DELETE_COMMAND) \cup Args(UPDATE_COMMAND) \cup ViewArgs

\* C22: a store call that fails during a command (the existence check, the
\* fetch or the write) does not end the process: the handler returns, and a
\* later message is handled as usual, here a view that lists the sender's rows.
C22_StoreFailureNotFatal ==
    \A userID \in Users, args \in CommandArgs, fails \in Failures \ {NoFailure} :
        LET h == MasterHandler(db, now, userID, args, fails)
            later == MasterHandler(h.db, h.now, userID, <<ENTRYPOINT, VIEW_COMMAND>>,
                                   NoFailure)
        IN /\ h.err # Panic
           /\ later.err = Nil
           /\ later.reply = <<"embed">>
           /\ EntryKeys(later.w) = {<<r.UserID, r.Title, r.Category>> :
                                       r \in {q \in h.db : q.UserID = userID}}

\* the existence check of an add failed and the handler returned, with the
\* table holding rows
C22_Witness ==
    /\ last.op = "add"
    /\ last.fetchErr = StoreError
    /\ last.err # Panic
    /\ db # {}

(***************************************************************************)
(* Handlers running concurrently.  The session calls the registered        *)
(* handler in a goroutine of its own for every message, and the handlers   *)
(* share the one *sql.DB without lock or transaction: an invocation is two *)
(* steps, FetchWatchlist and then the method of the watchlist it got, and  *)
(* steps of other invocations may come in between.  Here two invocations   *)
(* of one user on the entry (Dune, movie) run; last holds, per invocation, *)
(* its command, its position, the watchlist it fetched, the error of its   *)
(* method, and whether the row was in the table when the method ran.       *)
(***************************************************************************)
Procs == {1, 2}

ConcCommands ==
    {[op |-> UPDATE_COMMAND, link |-> "x"], [op |-> UPDATE_COMMAND, link |-> "y"],
     [op |-> DELETE_COMMAND, link |-> ""], [op |-> ADD_COMMAND, link |-> ""]}

ConcInit ==
    /\ db \in {{}, {Entry("u1", "Dune", Movie, 1, "")}}
    /\ now = Cardinality(db)
    /\ \E c \in [Procs -> ConcCommands] :
          last = [op |-> "concurrent", cmd |-> c,
                  pc |-> [p \in Procs |-> "start"],
                  w |-> [p \in Procs |-> NilWatchlist],
                  err |-> [p \in Procs |-> Nil],
                  present |-> [p \in Procs |-> FALSE]]

Lookup(p) ==
    /\ last.pc[p] = "start"
    /\ last' = [last EXCEPT !.pc[p] = "fetched",
                            !.w[p] = ListFetchWatchlist(db, "u1", FALSE, FALSE).watchlist]
    /\ UNCHANGED <<db, now>>

Method(p) ==
    IF last.cmd[p].op = ADD_COMMAND
    THEN WatchlistAdd(last.w[p], db, Entry("u1", "Dune", Movie, now + 1, ""), FALSE)
    ELSE IF last.cmd[p].op = DELETE_COMMAND
    THEN WatchlistDelete(last.w[p], db, "u1", "Dune", Movie, FALSE)
    ELSE WatchlistUpdate(last.w[p], db, "u1", "Dune", Movie, last.cmd[p].link, FALSE)

Write(p) ==
    /\ last.pc[p] = "fetched"
    /\ \E r \in {Method(p)} :
          /\ db' = r.db
          /\ now' = IF Cardinality(r.db) > Cardinality(db) THEN now + 1 ELSE now
          /\ last' = [last EXCEPT !.pc[p] = "done", !.w[p] = r.w, !.err[p] = r.err,
                                  !.present[p] = HasKey(db, "u1", "Dune", Movie)]

ConcNext ==
    \/ \E p \in Procs : Lookup(p)
    \/ \E p \in Procs : Write(p)

ConcSpec == ConcInit /\ [][ConcNext]_vars

\* C23: in every interleaving the lookup and the write of an invocation act
\* as one unit on its key: an update or delete that reports success found
\* the row in the table when its write was applied.
C23_LookupAndWriteAtomic ==
    \A p \in Procs :
        (/\ last.pc[p] = "done"
         /\ last.cmd[p].op \in {UPDATE_COMMAND, DELETE_COMMAND}
         /\ last.err[p] = Nil)
        => last.present[p]

C26_WatchedGroups ==
    (last.op = "sort" /\ last.key = SORT_WATCHED)
    => /\ \A i \in 1..Len(last.wl.Entries), k \in 1..Len(last.wl.Entries) :
              (i < k /\ last.wl.Entries[i].Done = last.wl.Entries[k].Done)
              => \A j \in i..k : last.wl.Entries[j].Done = last.wl.Entries[i].Done
       /\ Len(last.wl.Entries) = Len(last.input)
       /\ {last.wl.Entries[i] : i \in 1..Len(last.wl.Entries)}
             = {last.input[i] : i \in 1..Len(last.input)}

(***************************************************************************)
(* Properties of every message                                             *)
(***************************************************************************)
\* C27: MasterHandler finishes without a run-time fault for every message of
\* another user, also for one without tokens, with one token, and with the
\* prefix alone.
C27_NoRuntimeFault ==
    last.op = "other" => last.err # Panic

\* C28: add, delete and update send their confirmation only when the
\* watchlist operation returned no error; after an error no confirmation is
\* sent.
C28_ConfirmOnlyOnSuccess ==
    (last.op \in {"add", "delete", "update"} /\ last.err # Nil)
        => last.reply = <<>>

\* C29: a message of one user leaves every row of every other user in the
\* table as it is, and a view lists only entries of its sender.
C29_UserIsolation ==
    [][last'.op \in {"add", "delete", "update", "view", "other"} =>
          /\ {r \in db' : r.UserID # last'.user} = {r \in db : r.UserID # last'.user}
          /\ last'.op = "view" =>
                \A i \in 1..Len(last'.wl.Entries) :
                    last'.wl.Entries[i].UserID = last'.user]_vars

\* a view listed the one entry of its sender while another user has an entry
C29_Witness ==
    /\ last.op = "view"
    /\ last.fetchErr = Nil
    /\ Len(last.wl.Entries) = 1
    /\ \E r \in db : r.UserID # last.user

\* C30: an add message with 5 or more tokens stores the fifth token as the
\* link of the created entry; with exactly 4 tokens the link is empty.
C30_AddLink ==
    \A userID \in Users, args \in Args(ADD_COMMAND) :
        LET h == MasterHandler(db, now, userID, args, NoFailure)
        IN (Len(args) >= 4 /\ h.err = Nil) =>
              \E r \in h.db :
                  /\ SameKey(r, userID, args[3], args[4])
                  /\ r.Link = IF Len(args) >= 5 THEN args[5] ELSE ""

====
